---------------------------- MODULE Spec2Model ----------------------------
(***************************************************************************)
(* Model of app.py (Mohole - Dashboard Controllo Ore Docenti, v2.3):       *)
(* parse_time, normalize_dataframe, check_hours, check_duplicates,         *)
(* _check_overlaps_by and the part of main() that runs them.               *)
(*                                                                         *)
(* Text is a sequence of one-character strings.  A spreadsheet cell is a   *)
(* record [kind, s, v]: kind "nan" (empty cell), "str" (text s), "num"     *)
(* (a number, v in ten-thousandths) or "ts" (a date cell, v in seconds).   *)
(***************************************************************************)
EXTENDS Integers, Sequences, FiniteSets, TLC

VARIABLES
  pc,                 \* where main() is: "read", "stopped", "check_hours", ...
  columns,            \* the headers of the uploaded sheet, as written
  table,              \* its rows: one record of cells per row
  tolerance,          \* the slider's value, in minutes
  st_error,           \* what st.error() showed before st.stop()
  df,                 \* the normalised frame
  sort_cf,            \* the order in which check_overlaps_cf visited the rows
  sort_class,         \* the same for check_overlaps_class
  errors_df, duplicates_df, overlaps_cf_df, overlaps_class_df,
  x,                  \* the cell given to a single parse_time call
  parsed              \* what that call returned

vars == <<pc, columns, table, tolerance, st_error, df, sort_cf, sort_class,
          errors_df, duplicates_df, overlaps_cf_df, overlaps_class_df,
          x, parsed>>

(***************************************************************************)
(* Characters and text                                                     *)
(***************************************************************************)

\* The characters the model uses, in ASCII order.
Chars ==
  <<" ", "-", ".", "0", "1", "2", "3", "4", "5", "6", "7", "8", "9", ":",
    "A", "B", "C", "D", "E", "F", "I", "L", "N", "O", "R", "S", "T", "X", "Z",
    "_", "a", "b", "c", "d", "e", "f", "i", "l", "n", "o", "r", "s", "t", "x", "z",
    "|">>

Code(c) == CHOOSE i \in 1..Len(Chars) : Chars[i] = c

IsDigit(c) == c \in {"0", "1", "2", "3", "4", "5", "6", "7", "8", "9"}

DigitVal(c) == Code(c) - Code("0")

DigitChar(n) == Chars[Code("0") + n]

\* str.upper() and str.lower() on the letters of Chars.
LowerLetters ==
  <<"a", "b", "c", "d", "e", "f", "i", "l", "n", "o", "r", "s", "t", "x", "z">>
UpperLetters ==
  <<"A", "B", "C", "D", "E", "F", "I", "L", "N", "O", "R", "S", "T", "X", "Z">>

UpperChar(c) ==
  IF \E i \in 1..Len(LowerLetters) : LowerLetters[i] = c
  THEN UpperLetters[CHOOSE i \in 1..Len(LowerLetters) : LowerLetters[i] = c]
  ELSE c

LowerChar(c) ==
  IF \E i \in 1..Len(UpperLetters) : UpperLetters[i] = c
  THEN LowerLetters[CHOOSE i \in 1..Len(UpperLetters) : UpperLetters[i] = c]
  ELSE c

str_upper(s) == [i \in 1..Len(s) |-> UpperChar(s[i])]

str_lower(s) == [i \in 1..Len(s) |-> LowerChar(s[i])]

\* str.strip(): drop leading and trailing white space.
str_strip(s) ==
  LET keep == {i \in 1..Len(s) : s[i] # " "}
  IN  IF keep = {} THEN <<>>
      ELSE LET lo == CHOOSE i \in keep : \A j \in keep : i <= j
               hi == CHOOSE i \in keep : \A j \in keep : i >= j
           IN  SubSeq(s, lo, hi)

\* str.replace(a, b) for one-character a and b.
str_replace(s, a, b) == [i \in 1..Len(s) |-> IF s[i] = a THEN b ELSE s[i]]

\* Lexicographic order of text by character code (Python's str <).
RECURSIVE StrLess(_, _)
StrLess(s, t) ==
  IF t = <<>> THEN FALSE
  ELSE IF s = <<>> THEN TRUE
  ELSE IF s[1] # t[1] THEN Code(s[1]) < Code(t[1])
  ELSE StrLess(Tail(s), Tail(t))

\* The number a run of digits s[lo..hi] denotes (0 for an empty run).
RECURSIVE DigitsValue(_, _, _)
DigitsValue(s, lo, hi) ==
  IF hi < lo THEN 0 ELSE 10 * DigitsValue(s, lo, hi - 1) + DigitVal(s[hi])

\* The end of the longest run of digits of s that starts at position p
\* (p - 1 when s[p] is no digit).
RECURSIVE DigitRunEnd(_, _)
DigitRunEnd(s, p) ==
  IF p <= Len(s) /\ IsDigit(s[p]) THEN DigitRunEnd(s, p + 1) ELSE p - 1

RECURSIVE Pow10(_)
Pow10(k) == IF k = 0 THEN 1 ELSE 10 * Pow10(k - 1)

(***************************************************************************)
(* Cells                                                                   *)
(***************************************************************************)

NaN == [kind |-> "nan", s |-> <<>>, v |-> 0]
Str(s) == [kind |-> "str", s |-> s, v |-> 0]
Num(v) == [kind |-> "num", s |-> <<>>, v |-> v]
Ts(v) == [kind |-> "ts", s |-> <<>>, v |-> v]

\* pd.isna(x)
isna(c) == c.kind = "nan"

\* str(x) / Series.astype(str) of a cell: an empty cell reads "nan".
astype_str(c) == IF c.kind = "nan" THEN <<"n", "a", "n">> ELSE c.s

(***************************************************************************)
(* parse_time                                                              *)
(***************************************************************************)

NoTime == [ok |-> FALSE, h |-> 0, m |-> 0, sec |-> 0]
Time(h, m, sec) == [ok |-> TRUE, h |-> h, m |-> m, sec |-> sec]

\* A %H field read at position p: 2[0-3] | [0-1]\d | \d.  The end of the
\* field, or 0 when there is none.
FieldH(s, p) ==
  IF p > Len(s) \/ ~IsDigit(s[p]) THEN 0
  ELSE IF p + 1 <= Len(s) /\ IsDigit(s[p + 1])
          /\ DigitsValue(s, p, p + 1) <= 23 THEN p + 1
  ELSE p

\* A %M or %S field read at position p: [0-5]\d | \d (the 60 and 61 that %S
\* also matches are rejected by the time constructor).
FieldM(s, p) ==
  IF p > Len(s) \/ ~IsDigit(s[p]) THEN 0
  ELSE IF p + 1 <= Len(s) /\ IsDigit(s[p + 1]) /\ DigitVal(s[p]) <= 5 THEN p + 1
  ELSE p

\* datetime.strptime(s, "%H" sep "%M").time(); sep is ":" or ".".  The %H
\* field may give a digit back when the separator does not follow it.
strptime_HM(s, sep) ==
  LET try(he) ==
        IF he = 0 \/ he + 1 > Len(s) \/ s[he + 1] # sep THEN NoTime
        ELSE LET me == FieldM(s, he + 2)
             IN  IF me = 0 \/ me # Len(s) THEN NoTime
                 ELSE Time(DigitsValue(s, 1, he), DigitsValue(s, he + 2, me), 0)
      h2 == FieldH(s, 1)
  IN  IF try(h2).ok THEN try(h2)
      ELSE IF h2 = 2 THEN try(1)
      ELSE NoTime

\* datetime.strptime(s, "%H:%M:%S").time()
strptime_HMS(s) ==
  LET tryM(he, me) ==
        IF me = 0 \/ me + 1 > Len(s) \/ s[me + 1] # ":" THEN NoTime
        ELSE LET se == FieldM(s, me + 2)
             IN  IF se = 0 \/ se # Len(s) THEN NoTime
                 ELSE Time(DigitsValue(s, 1, he), DigitsValue(s, he + 2, me),
                           DigitsValue(s, me + 2, se))
      try(he) ==
        IF he = 0 \/ he + 1 > Len(s) \/ s[he + 1] # ":" THEN NoTime
        ELSE LET m2 == FieldM(s, he + 2)
             IN  IF tryM(he, m2).ok THEN tryM(he, m2)
                 ELSE IF m2 = he + 3 THEN tryM(he, he + 2)
                 ELSE NoTime
      h2 == FieldH(s, 1)
  IN  IF try(h2).ok THEN try(h2)
      ELSE IF h2 = 2 THEN try(1)
      ELSE NoTime

\* float(s) for decimal text: [sign] digits [. digits] [e [sign] digits]
\* with at least one digit before the exponent.  The value is
\* (-1)^neg * m * 10^e.
NoFloat == [ok |-> FALSE, neg |-> FALSE, m |-> 0, e |-> 0]

\* The value once the text is cut into its runs of digits: the integer part
\* s[p1..ie], the fraction s[fs..fe], the exponent s[xs..xe] (xs = 0: none).
float_value(s, p1, ie, fs, fe, xs, xe) ==
  IF (ie - p1 + 1) + (fe - fs + 1) = 0 THEN NoFloat
  ELSE IF xs > 0 /\ xe < xs THEN NoFloat
  ELSE IF (IF xs > 0 THEN xe ELSE fe) # Len(s) THEN NoFloat
  ELSE [ok |-> TRUE,
        neg |-> s[1] = "-",
        m |-> DigitsValue(s, p1, ie) * Pow10(fe - fs + 1) + DigitsValue(s, fs, fe),
        e |-> (IF xs = 0 THEN 0
               ELSE IF s[xs - 1] = "-" THEN 0 - DigitsValue(s, xs, xe)
               ELSE DigitsValue(s, xs, xe)) - (fe - fs + 1)]

float_exponent(s, p1, ie, fs, fe) ==
  IF fe + 1 <= Len(s) /\ s[fe + 1] \in {"e", "E"}
  THEN IF fe + 2 <= Len(s) /\ s[fe + 2] \in {"-", "+"}
       THEN float_value(s, p1, ie, fs, fe, fe + 3, DigitRunEnd(s, fe + 3))
       ELSE float_value(s, p1, ie, fs, fe, fe + 2, DigitRunEnd(s, fe + 2))
  ELSE float_value(s, p1, ie, fs, fe, 0, 0)

float_fraction(s, p1, ie) ==
  IF ie + 1 <= Len(s) /\ s[ie + 1] = "."
  THEN float_exponent(s, p1, ie, ie + 2, DigitRunEnd(s, ie + 2))
  ELSE float_exponent(s, p1, ie, ie + 1, ie)

float_stripped(s) ==
  IF s = <<>> THEN NoFloat
  ELSE IF s[1] \in {"-", "+"} THEN float_fraction(s, 2, DigitRunEnd(s, 2))
  ELSE float_fraction(s, 1, DigitRunEnd(s, 1))

float(s0) == float_stripped(str_strip(s0))

\* h and m of q whole minutes and t / den of a minute more: h = (q // 60) %
\* 24, m = round(q % 60 + t / den), half to even; time(h, 60) raises and the
\* bare except turns it into None.
fraction_time(q, t, den) ==
  IF (q % 60) + (IF t > den - t \/ (t = den - t /\ q % 2 = 1) THEN 1 ELSE 0) = 60
  THEN NoTime
  ELSE Time((q \div 60) % 24,
            (q % 60) + (IF t > den - t \/ (t = den - t /\ q % 2 = 1) THEN 1 ELSE 0),
            0)

\* The branch "Frazione di giorno (Excel)": f = m * 10^e with 0 <= f < 2,
\* minutes = f * 24 * 60, h = int(minutes // 60) % 24,
\* m = int(round(minutes % 60)).  Exact arithmetic, for m < 10^6.
day_fraction(f) ==
  IF ~f.ok THEN NoTime
  ELSE IF f.m = 0 THEN Time(0, 0, 0)
  ELSE IF f.neg THEN NoTime
  ELSE IF f.e >= 1 THEN NoTime
  ELSE IF f.e = 0 THEN (IF f.m = 1 THEN Time(0, 0, 0) ELSE NoTime)
  ELSE IF 0 - f.e >= 10 THEN Time(0, 0, 0)
  ELSE IF f.m \div Pow10(0 - f.e) >= 2 THEN NoTime
  ELSE fraction_time((f.m * 1440) \div Pow10(0 - f.e),
                     (f.m * 1440) % Pow10(0 - f.e), Pow10(0 - f.e))

\* The text of a cell as parse_time reads it.
time_text(c) == str_replace(str_strip(astype_str(c)), ".", ":")

parse_text(s) ==
  IF s = <<>> THEN NoTime
  ELSE IF strptime_HM(s, ":").ok THEN strptime_HM(s, ":")
  ELSE IF strptime_HM(s, ".").ok THEN strptime_HM(s, ".")
  ELSE IF strptime_HMS(s).ok THEN strptime_HMS(s)
  ELSE day_fraction(float(s))

parse_time(c) == IF isna(c) THEN NoTime ELSE parse_text(time_text(c))

(***************************************************************************)
(* normalize_dataframe                                                     *)
(***************************************************************************)

None == [ok |-> FALSE, v |-> 0]
Some(v) == [ok |-> TRUE, v |-> v]

H_DATA == <<"D", "A", "T", "A", " ", "L", "E", "Z", "I", "O", "N", "E">>
H_ORE == <<"T", "O", "T", "A", "L", "E", "_", "O", "R", "E">>
H_INIZIO == <<"O", "R", "A", "_", "I", "N", "I", "Z", "I", "O">>
H_FINE == <<"O", "R", "A", "_", "F", "I", "N", "E">>
H_SEDE == <<"S", "E", "D", "E">>
H_CF == <<"C", "o", "d", "i", "c", "e", " ", "F", "i", "s", "c", "a", "l", "e">>
H_classe == <<"c", "l", "a", "s", "s", "e">>

required_cols == <<H_DATA, H_ORE, H_INIZIO, H_FINE, H_SEDE, H_CF>>

\* df.columns = [str(c).strip() for c in df.columns]
strip_columns(cols) == {str_strip(c) : c \in cols}

\* missing_cols with 'SEDE' forgotten in required_cols.
missing_cols_without_sede(cols) ==
  SelectSeq(<<H_DATA, H_ORE, H_INIZIO, H_FINE, H_CF>>,
            LAMBDA c : c \notin strip_columns(cols))

\* missing = [c for c in required_cols if c not in df.columns]
missing_cols(cols) ==
  SelectSeq(required_cols, LAMBDA c : c \notin strip_columns(cols))

\* The loop that looks for a column whose header reads 'classe' in any case.
has_class_col(cols) ==
  \E c \in strip_columns(cols) : str_lower(str_strip(c)) = H_classe

SecondsPerDay == 86400

\* pd.to_datetime(..., errors='coerce').dt.normalize() of a cell: a date
\* cell loses its time of day; an empty cell and text that is no date (the
\* only text the model puts in this column) give NaT.
to_date(c) ==
  IF c.kind = "ts" THEN Some((c.v \div SecondsPerDay) * SecondsPerDay) ELSE None

\* pd.Timestamp.combine(date, time)
combine(d, tm) == d + tm.h * 3600 + tm.m * 60 + tm.sec

\* floor(n / b) for b > 0.
FloorDiv(n, b) == IF n >= 0 THEN n \div b ELSE 0 - ((0 - n + b - 1) \div b)

\* n / b (b > 0) rounded to an integer, half to even.
RoundHalfEven(n, b) ==
  IF 2 * (n - FloorDiv(n, b) * b) > b THEN FloorDiv(n, b) + 1
  ELSE IF 2 * (n - FloorDiv(n, b) * b) = b /\ FloorDiv(n, b) % 2 = 1
  THEN FloorDiv(n, b) + 1
  ELSE FloorDiv(n, b)

\* Series.round(2) of a / b (b > 0), in hundredths, half to even.
Round2(a, b) == RoundHalfEven(100 * a, b)

\* A float m * 10^e rounded to hundredths (for e in -4..4).
float_round2(f) ==
  IF f.e >= 0
  THEN (IF f.neg THEN 0 - 100 * f.m * Pow10(f.e) ELSE 100 * f.m * Pow10(f.e))
  ELSE (IF f.neg THEN 0 - Round2(f.m, Pow10(0 - f.e)) ELSE Round2(f.m, Pow10(0 - f.e)))

text_to_numeric(f) == IF f.ok /\ f.e \in -4..4 THEN Some(float_round2(f)) ELSE None

\* pd.to_numeric(..., errors='coerce').round(2), in hundredths: a number
\* cell holds ten-thousandths; text is read as float() reads it.
to_numeric_round2(c) ==
  IF c.kind = "num" THEN Some(Round2(c.v, 10000))
  ELSE IF c.kind = "str" THEN text_to_numeric(float(c.s))
  ELSE None

\* overnight_end without the overnight rule.
overnight_end_unchanged(start_dt, end0) == end0

\* Orari oltre la mezzanotte: an end before the start is moved one day on.
overnight_end(start_dt, end0) ==
  IF end0.ok /\ start_dt.ok /\ end0.v < start_dt.v
  THEN Some(end0.v + SecondsPerDay) ELSE end0

\* The row once its date and times are parsed and combined (end0 is the
\* end instant before the overnight rule).
normalized_row(raw, i, date, st, et, start_dt, end_dt) ==
  [raw |-> raw,
   date |-> date,
   start_time |-> st,
   end_time |-> et,
   start_dt |-> start_dt,
   end_dt |-> end_dt,
   cf_norm |-> str_upper(str_strip(astype_str(raw.cf))),
   computed_hours |->
     IF start_dt.ok /\ end_dt.ok
     THEN Some(Round2(end_dt.v - start_dt.v, 3600)) ELSE None,
   declared_hours |-> to_numeric_round2(raw.ore),
   original_row |-> i + 2,
   class |-> str_upper(str_strip(astype_str(raw.classe)))]

combined_row(raw, i, date, st, et) ==
  IF st.ok /\ et.ok /\ date.ok
  THEN normalized_row(raw, i, date, st, et, Some(combine(date.v, st)),
                      overnight_end(Some(combine(date.v, st)),
                                    Some(combine(date.v, et))))
  ELSE normalized_row(raw, i, date, st, et, None, overnight_end(None, None))

\* One row of the normalised frame; i is the row's 0-based index.
normalize_row(raw, i) ==
  combined_row(raw, i, to_date(raw.data), parse_time(raw.inizio),
               parse_time(raw.fine))

normalize_dataframe(tbl) == [k \in 1..Len(tbl) |-> normalize_row(tbl[k], k - 1)]

(***************************************************************************)
(* Formatting                                                              *)
(***************************************************************************)

TwoDigits(n) == <<DigitChar(n \div 10), DigitChar(n % 10)>>

\* time.strftime('%H:%M')
strftime_HM(h, m) == TwoDigits(h) \o <<":">> \o TwoDigits(m)

\* Timestamp.strftime('%H:%M') of an instant in seconds.
ts_strftime_HM(v) ==
  strftime_HM((v % SecondsPerDay) \div 3600, ((v % SecondsPerDay) % 3600) \div 60)

\* Timestamp.strftime('%Y-%m-%d'): the model's day d is 2024-03-d.
ts_strftime_Ymd(v) ==
  <<"2", "0", "2", "4", "-", "0", "3", "-">> \o TwoDigits(v \div SecondsPerDay)

\* The '_date' column as text (astype(str)): NaT reads "NaT".
date_astype_str(d) == IF d.ok THEN ts_strftime_Ymd(d.v) ELSE <<"N", "a", "T">>

\* '|'.join(parts)
RECURSIVE join(_, _)
join(sep, parts) ==
  IF Len(parts) = 0 THEN <<>>
  ELSE IF Len(parts) = 1 THEN parts[1]
  ELSE parts[1] \o sep \o join(sep, Tail(parts))

\* The texts of a finite set in ascending order.
RECURSIVE SortTexts(_)
SortTexts(S) ==
  IF S = {} THEN <<>>
  ELSE LET lo == CHOOSE s \in S : \A u \in S : ~StrLess(u, s)
       IN  <<lo>> \o SortTexts(S \ {lo})

\* The numbers of a finite set in ascending order.
RECURSIVE SortInts(_)
SortInts(S) ==
  IF S = {} THEN <<>>
  ELSE LET lo == CHOOSE n \in S : \A u \in S : n <= u
       IN  <<lo>> \o SortInts(S \ {lo})

\* itertools.combinations(seq, 2), in its order.
RECURSIVE combinations2(_)
combinations2(seq) ==
  IF Len(seq) <= 1 THEN <<>>
  ELSE [k \in 1..(Len(seq) - 1) |-> <<seq[1], seq[k + 1]>>]
         \o combinations2(Tail(seq))

(***************************************************************************)
(* CONTROLLO 1: check_hours                                                *)
(***************************************************************************)

Abs(n) == IF n < 0 THEN 0 - n ELSE n

\* mismatch_mask = a.notna() & b.notna() & (a - b).abs() > tolerance.
\* Python's & binds tighter than >: the three operands are and-ed first (the
\* float operand is cast to bool: non-zero is True, NaN is False) and the
\* resulting bool, 1 or 0, is then compared with the tolerance.  tol is the
\* slider's value in minutes; the tolerance is tol / 60.0 hours.
mismatch_mask(r, tol) ==
  LET anded == /\ r.computed_hours.ok
               /\ r.declared_hours.ok
               /\ Abs(r.computed_hours.v - r.declared_hours.v) # 0
  IN  (IF anded THEN 1 ELSE 0) * 60 > tol

error_row(r) ==
  [riga |-> r.original_row,
   totale_ore |-> r.raw.ore,
   computed_hours |-> r.computed_hours.v,
   diff |-> r.computed_hours.v - r.declared_hours.v]

check_hours(d, tol) ==
  LET hit == SelectSeq([k \in 1..Len(d) |-> k], LAMBDA k : mismatch_mask(d[k], tol))
  IN  [n \in 1..Len(hit) |-> error_row(d[hit[n]])]

(***************************************************************************)
(* CONTROLLO 2: check_duplicates                                           *)
(***************************************************************************)

start_str(r) ==
  IF r.start_time.ok THEN strftime_HM(r.start_time.h, r.start_time.m) ELSE <<>>

end_str(r) ==
  IF r.end_time.ok THEN strftime_HM(r.end_time.h, r.end_time.m) ELSE <<>>

\* df_work[key_cols_str].astype(str).agg('|'.join, axis=1)
dup_key(r) ==
  join(<<"|">>, <<date_astype_str(r.date), start_str(r), end_str(r),
                  astype_str(r.raw.sede), r.cf_norm>>)

duplicate_row(r1, r2) ==
  [riga_x |-> r1.original_row,
   riga_y |-> r2.original_row,
   data |-> IF r1.date.ok THEN ts_strftime_Ymd(r1.date.v) ELSE <<>>,
   cf |-> r1.cf_norm,
   ora_inizio |-> start_str(r1),
   ora_fine |-> end_str(r1),
   sede |-> r1.raw.sede]

\* The rows of one group: its members by ascending row number, in pairs.
group_pairs(d, key) ==
  LET rows == SortInts({k \in 1..Len(d) : dup_key(d[k]) = key})
      prs == combinations2(rows)
  IN  [n \in 1..Len(prs) |-> duplicate_row(d[prs[n][1]], d[prs[n][2]])]

RECURSIVE groups_pairs(_, _)
groups_pairs(d, keys) ==
  IF keys = <<>> THEN <<>>
  ELSE group_pairs(d, keys[1]) \o groups_pairs(d, Tail(keys))

check_duplicates(d) ==
  LET duplicated == {k \in 1..Len(d) :
                       \E j \in 1..Len(d) : j # k /\ dup_key(d[j]) = dup_key(d[k])}
  IN  groups_pairs(d, SortTexts({dup_key(d[k]) : k \in duplicated}))

(***************************************************************************)
(* CONTROLLO 3: _check_overlaps_by                                         *)
(***************************************************************************)

\* The rows that take part: both instants present, and a grouping text
\* (already text: '_cf_norm' or '_class') of length > 0.
overlap_work(d, by) ==
  {k \in 1..Len(d) : d[k].start_dt.ok /\ d[k].end_dt.ok /\ Len(d[k][by]) > 0}

same_group(r1, r2, by) == r1.date.v = r2.date.v /\ r1[by] = r2[by]

\* groupby(['_date_str', by]) visits the groups in ascending key order.
group_less(r1, r2, by) ==
  LET d1 == ts_strftime_Ymd(r1.date.v)
      d2 == ts_strftime_Ymd(r2.date.v)
  IN  StrLess(d1, d2) \/ (d1 = d2 /\ StrLess(r1[by], r2[by]))

\* The orders in which the rows can be visited: group after group, and
\* within a group as g.sort_values('_start_dt') leaves them.  sort_values
\* sorts with its default kind, quicksort, which is not stable: rows with
\* equal '_start_dt' come out in either order.
sort_values_start_dt(d, by) ==
  LET work == overlap_work(d, by)
      n == Cardinality(work)
  IN  {ord \in [1..n -> work] :
         /\ \A a, b \in 1..n : a # b => ord[a] # ord[b]
         /\ \A a \in 1..n : a < n =>
              \/ group_less(d[ord[a]], d[ord[a + 1]], by)
              \/ /\ same_group(d[ord[a]], d[ord[a + 1]], by)
                 /\ d[ord[a]].start_dt.v <= d[ord[a + 1]].start_dt.v}

\* overlap_test with <= for <.
overlap_test_closed(r1, r2) == r2.start_dt.v <= r1.end_dt.v

\* Sovrapposizione: inizio2 < fine1
overlap_test(r1, r2) == r2.start_dt.v < r1.end_dt.v

\* inner_range that looks at the next row only.
inner_range_adjacent(i, n) == {i + 1} \cap (1..n)

\* for j in range(i + 1, len(g))
inner_range(i, n) == (i + 1)..n

overlap_row(r1, r2, by) ==
  [data |-> ts_strftime_Ymd(r1.date.v),
   key |-> r1[by],
   riga_x |-> r1.original_row,
   riga_y |-> r2.original_row,
   ora_inizio_x |-> ts_strftime_HM(r1.start_dt.v),
   ora_fine_x |-> ts_strftime_HM(r1.end_dt.v),
   ora_inizio_y |-> ts_strftime_HM(r2.start_dt.v),
   ora_fine_y |-> ts_strftime_HM(r2.end_dt.v)]

\* The pairs found from position a of the visiting order on.
RECURSIVE overlaps_from(_, _, _, _)
overlaps_from(d, by, ord, a) ==
  IF a > Len(ord) THEN <<>>
  ELSE LET last == CHOOSE e \in a..Len(ord) :
                     /\ \A c \in a..e : same_group(d[ord[a]], d[ord[c]], by)
                     /\ e < Len(ord) => ~same_group(d[ord[a]], d[ord[e + 1]], by)
           js == SelectSeq([c \in 1..Len(ord) |-> c],
                           LAMBDA c : /\ c \in inner_range(a, last)
                                      /\ overlap_test(d[ord[a]], d[ord[c]]))
       IN  [n \in 1..Len(js) |-> overlap_row(d[ord[a]], d[ord[js[n]]], by)]
             \o overlaps_from(d, by, ord, a + 1)

_check_overlaps_by(d, by, ord) == overlaps_from(d, by, ord, 1)

(***************************************************************************)
(* main(): read and normalise the sheet, then run the four checks          *)
(***************************************************************************)

NoError == [kind |-> "none", cols |-> <<>>]

NoResults ==
  /\ df = <<>> /\ sort_cf = <<>> /\ sort_class = <<>>
  /\ errors_df = <<>> /\ duplicates_df = <<>>
  /\ overlaps_cf_df = <<>> /\ overlaps_class_df = <<>>

\* df = normalize_dataframe(df_raw): a missing required column makes it
\* return None and main() stops; a missing 'classe' column stops the run
\* from inside normalize_dataframe.
Normalize ==
  /\ pc = "read"
  /\ IF missing_cols(columns) # <<>>
     THEN /\ st_error' = [kind |-> "missing", cols |-> missing_cols(columns)]
          /\ pc' = "stopped"
          /\ df' = df
     ELSE IF ~has_class_col(columns)
     THEN /\ st_error' = [kind |-> "classe", cols |-> <<>>]
          /\ pc' = "stopped"
          /\ df' = df
     ELSE /\ st_error' = st_error
          /\ df' = normalize_dataframe(table)
          /\ pc' = "check_hours"
  /\ UNCHANGED <<columns, table, tolerance, sort_cf, sort_class, errors_df,
                 duplicates_df, overlaps_cf_df, overlaps_class_df, x, parsed>>

CheckHours ==
  /\ pc = "check_hours"
  /\ errors_df' = check_hours(df, tolerance)
  /\ pc' = "check_duplicates"
  /\ UNCHANGED <<columns, table, tolerance, st_error, df, sort_cf, sort_class,
                 duplicates_df, overlaps_cf_df, overlaps_class_df, x, parsed>>

CheckDuplicates ==
  /\ pc = "check_duplicates"
  /\ duplicates_df' = check_duplicates(df)
  /\ pc' = "check_overlaps_cf"
  /\ UNCHANGED <<columns, table, tolerance, st_error, df, sort_cf, sort_class,
                 errors_df, overlaps_cf_df, overlaps_class_df, x, parsed>>

CheckOverlapsCf ==
  /\ pc = "check_overlaps_cf"
  /\ \E ord \in sort_values_start_dt(df, "cf_norm") :
       /\ sort_cf' = ord
       /\ overlaps_cf_df' = _check_overlaps_by(df, "cf_norm", ord)
  /\ pc' = "check_overlaps_class"
  /\ UNCHANGED <<columns, table, tolerance, st_error, df, sort_class,
                 errors_df, duplicates_df, overlaps_class_df, x, parsed>>

CheckOverlapsClass ==
  /\ pc = "check_overlaps_class"
  /\ \E ord \in sort_values_start_dt(df, "class") :
       /\ sort_class' = ord
       /\ overlaps_class_df' = _check_overlaps_by(df, "class", ord)
  /\ pc' = "done"
  /\ UNCHANGED <<columns, table, tolerance, st_error, df, sort_cf,
                 errors_df, duplicates_df, overlaps_cf_df, x, parsed>>

Next ==
  \/ Normalize
  \/ CheckHours
  \/ CheckDuplicates
  \/ CheckOverlapsCf
  \/ CheckOverlapsClass

(***************************************************************************)
(* Input sheets                                                            *)
(***************************************************************************)

Row(data, ore, inizio, fine, sede, cf, classe) ==
  [data |-> data, ore |-> ore, inizio |-> inizio, fine |-> fine,
   sede |-> sede, cf |-> cf, classe |-> classe]

\* The sheets of 1..n rows drawn from Rows.
Tables(Rows, n) == UNION {[1..k -> Rows] : k \in 1..n}

\* A date cell: day d of the model's month, at time of day sec.
Day(d, sec) == Ts(d * SecondsPerDay + sec)

FullColumns == {H_DATA, H_ORE, H_INIZIO, H_FINE, H_SEDE, H_CF, H_classe}

T_0900 == Str(<<"0", "9", ":", "0", "0">>)
T_0930 == Str(<<"9", ".", "3", "0">>)
T_1000 == Str(<<"1", "0", ":", "0", "0">>)
T_1030 == Str(<<"1", "0", ":", "3", "0", ":", "0", "0">>)
T_1100 == Str(<<" ", "1", "1", ":", "0", "0">>)
T_1101 == Str(<<"1", "1", ":", "0", "1">>)
T_2330 == Str(<<"2", "3", ":", "3", "0">>)
T_0015 == Str(<<"0", "0", ":", "1", "5">>)
T_0000 == Str(<<"0">>)
T_0100 == Str(<<"1", ":", "0">>)
T_bad == Str(<<"x">>)

InitWith(Headers, Sheets, Tolerances) ==
  /\ pc = "read"
  /\ columns \in Headers
  /\ table \in Sheets
  /\ tolerance \in Tolerances
  /\ st_error = NoError
  /\ NoResults
  /\ x = NaN
  /\ parsed = NoTime

\* --- sheets with and without the columns main() needs ------------------

\* The most rows of a sheet in Spec.
MaxRows == 2

H_SEDE_padded == <<" ", "S", "E", "D", "E", " ">>
H_sede_lower == <<"s", "e", "d", "e">>
H_CLASSE_upper == <<"C", "L", "A", "S", "S", "E">>
H_Classe_padded == <<" ", "C", "l", "a", "s", "s", "e">>

ColumnSets ==
  {FullColumns,
   (FullColumns \ {H_SEDE}) \cup {H_SEDE_padded},
   (FullColumns \ {H_classe}) \cup {H_CLASSE_upper},
   (FullColumns \ {H_classe}) \cup {H_Classe_padded},
   FullColumns \ {H_classe},
   (FullColumns \ {H_SEDE}) \cup {H_sede_lower},
   FullColumns \ {H_DATA, H_CF},
   FullColumns \ {H_ORE, H_classe}}
  \cup {FullColumns \ {required_cols[k]} : k \in 1..Len(required_cols)}

MainRows ==
  {Row(Day(5, 0), Num(10000), T_0900, T_1000, Str(<<"A">>), Str(<<"C">>), Str(<<"X">>)),
   Row(Day(5, 0), Num(20000), T_0930, T_1030, Str(<<"A">>), Str(<<"C">>), Str(<<"X">>)),
   Row(NaN, NaN, T_bad, NaN, NaN, NaN, NaN)}

Init == InitWith(ColumnSets, Tables(MainRows, MaxRows), {1})

Spec == Init /\ [][Next]_vars

\* --- sheets for the hour check ------------------------------------------

\* The most rows of a sheet in SpecHours.
HoursRows == 1

HourRows ==
  {Row(Day(5, 0), ore, inizio, fine, Str(<<"A">>), Str(<<"C">>), Str(<<"X">>)) :
     ore \in {Num(20000), Num(20167), Num(7500), NaN},
     inizio \in {T_0900, T_0930, T_2330, NaN},
     fine \in {T_1100, T_1101, T_0015, T_bad}}

\* The slider: min_value=0, max_value=5, in minutes.
SliderValues == 0..5

InitHours == InitWith({FullColumns}, Tables(HourRows, HoursRows), SliderValues)

SpecHours == InitHours /\ [][Next]_vars

\* --- sheets for the duplicate check --------------------------------------

\* The most rows of a sheet in SpecDup.
DupRows == 3

DuplicateRows ==
  {Row(data, Num(10000), inizio, T_1000, Str(sede), Str(cf), Str(<<"X">>)) :
     data \in {Day(5, 0), Day(6, 0)},
     inizio \in {T_0900, NaN},
     sede \in {<<"A">>, <<"A", "|", "B">>},
     cf \in {<<"C">>, <<"B", "|", "C">>, <<"c", " ">>}}

InitDup == InitWith({FullColumns}, Tables(DuplicateRows, DupRows), {1})

SpecDup == InitDup /\ [][Next]_vars

\* --- sheets for the overlap checks ---------------------------------------

\* The most rows of a sheet in SpecOverlap.
OverlapRows == 3

A_0900_1000 == Row(Day(5, 0), Num(10000), T_0900, T_1000, Str(<<"S">>), Str(<<"A">>), Str(<<"X">>))
B_0930_1030 == Row(Day(5, 0), Num(10000), T_0930, T_1030, Str(<<"S">>), Str(<<"A">>), Str(<<"X">>))
C_1000_1100 == Row(Day(5, 0), Num(10000), T_1000, T_1100, Str(<<"S">>), Str(<<"A">>), Str(<<"Z">>))

IntervalRows ==
  {A_0900_1000, B_0930_1030, C_1000_1100,
   \* a long lesson of the same teacher, written in lower case
   Row(Day(5, 3600), Num(20000), T_0900, T_1100, Str(<<"S">>), Str(<<"a", " ">>), Str(<<"Z">>)),
   \* past midnight, and early on the next day
   Row(Day(5, 0), Num(7500), T_2330, T_0015, Str(<<"S">>), Str(<<"A">>), Str(<<"X">>)),
   Row(Day(6, 0), Num(10000), T_0000, T_0100, Str(<<"S">>), Str(<<"A">>), Str(<<"X">>)),
   \* another teacher
   Row(Day(5, 0), Num(10000), T_0930, T_1030, Str(<<"S">>), Str(<<"B">>), Str(<<"X">>)),
   \* no teacher and no class; a blank teacher
   Row(Day(5, 0), Num(10000), T_0900, T_1000, Str(<<"S">>), NaN, NaN),
   Row(Day(5, 0), Num(10000), T_0930, T_1030, Str(<<"S">>), Str(<<" ">>), Str(<<" ", " ">>)),
   \* no start time; no date
   Row(Day(5, 0), Num(10000), NaN, T_1000, Str(<<"S">>), Str(<<"A">>), Str(<<"X">>)),
   Row(NaN, Num(10000), T_0900, T_1000, Str(<<"S">>), Str(<<"A">>), Str(<<"X">>))}

InitOverlap == InitWith({FullColumns}, Tables(IntervalRows, OverlapRows), {1})

SpecOverlap == InitOverlap /\ [][Next]_vars

(***************************************************************************)
(* parse_time on its own: one call on one cell                             *)
(***************************************************************************)

\* The longest text given to parse_time.
MaxLen == 5

ParseChars == {"0", "1", "3", "4", "5", ":", ".", "e", "-", " "}

Texts(n) == UNION {[1..k -> ParseChars] : k \in 0..n}

Idle ==
  /\ columns = {} /\ table = <<>> /\ tolerance = 0 /\ st_error = NoError
  /\ NoResults

InitParse ==
  /\ pc = "parse"
  /\ x \in {NaN} \cup {Str(s) : s \in Texts(MaxLen)}
  /\ parsed = NoTime
  /\ Idle

ParseTime ==
  /\ pc = "parse"
  /\ parsed' = parse_time(x)
  /\ pc' = "parsed"
  /\ UNCHANGED <<columns, table, tolerance, st_error, df, sort_cf, sort_class,
                 errors_df, duplicates_df, overlaps_cf_df, overlaps_class_df, x>>

NextParse == ParseTime

SpecParse == InitParse /\ [][NextParse]_vars

(***************************************************************************)
(* Properties                                                              *)
(***************************************************************************)

Normalized == pc \notin {"read", "stopped", "parse", "parsed"}
HoursChecked == Normalized /\ pc # "check_hours"
DuplicatesChecked == HoursChecked /\ pc # "check_duplicates"
CfChecked == pc \in {"check_overlaps_class", "done"}
ClassChecked == pc = "done"

\* The frame's row with Excel row number n.
ByRow(n) == df[n - 1]

TimeOfDay(tm) == tm.h * 3600 + tm.m * 60 + tm.sec

Min(a, b) == IF a <= b THEN a ELSE b
Max(a, b) == IF a >= b THEN a ELSE b

\* C1: check_hours reports a record if and only if its computed and its
\* declared hours are both present and differ by more than the tolerance
\* (hundredths of an hour against minutes / 60).
C1_MismatchIffBeyondTolerance ==
  HoursChecked =>
    \A k \in 1..Len(df) :
      (\E n \in 1..Len(errors_df) : errors_df[n].riga = df[k].original_row)
        <=> /\ df[k].computed_hours.ok
            /\ df[k].declared_hours.ok
            /\ 60 * Abs(df[k].computed_hours.v - df[k].declared_hours.v)
                 > 100 * tolerance

\* C5: after normalize_dataframe a record with both instants has its end at
\* or after its start: the end is the date plus the end time of day, moved
\* exactly one day on when the end time of day is before the start time of
\* day and not moved otherwise; the computed hours are not negative, and
\* 23:30 to 00:15 is 0.75 h.
C5_EndNotBeforeStart ==
  Normalized =>
    \A k \in 1..Len(df) :
      df[k].start_dt.ok /\ df[k].end_dt.ok =>
        /\ df[k].end_dt.v >= df[k].start_dt.v
        /\ df[k].computed_hours.ok /\ df[k].computed_hours.v >= 0
        /\ df[k].start_dt.v = df[k].date.v + TimeOfDay(df[k].start_time)
        /\ df[k].end_dt.v =
             df[k].date.v + TimeOfDay(df[k].end_time)
               + (IF TimeOfDay(df[k].end_time) < TimeOfDay(df[k].start_time)
                  THEN SecondsPerDay ELSE 0)
        /\ (df[k].start_time = Time(23, 30, 0) /\ df[k].end_time = Time(0, 15, 0)
              => df[k].computed_hours.v = 75)

C5_OvernightLesson ==
  /\ Normalized
  /\ \E k \in 1..Len(df) :
       /\ df[k].start_time = Time(23, 30, 0)
       /\ df[k].end_time = Time(0, 15, 0)
       /\ df[k].end_dt.ok
       /\ df[k].end_dt.v \div SecondsPerDay = (df[k].date.v \div SecondsPerDay) + 1
       /\ df[k].computed_hours = Some(75)

HasColumn(name) == \E c \in columns : str_strip(c) = name

AllSixPresent ==
  \A name \in {H_DATA, H_ORE, H_INIZIO, H_FINE, H_SEDE, H_CF} : HasColumn(name)

ClassPresent == \E c \in columns : str_lower(str_strip(c)) = H_classe

\* C6, as the spec states it: a run stops only when one of the six required
\* columns is missing.
C6_OnlyRequiredColumnsStop == pc = "stopped" => ~AllSixPresent

\* C6, amended: a run stops before any check has run exactly when one of
\* the six required columns or the class column is missing; the missing
\* required columns are listed; a sheet that has the six and the class
\* column is normalised row by row and reaches the checks.
C6_MissingColumnsStop ==
  /\ pc = "stopped" =>
       /\ NoResults
       /\ ~AllSixPresent \/ ~ClassPresent
       /\ ~AllSixPresent =>
            /\ st_error.kind = "missing"
            /\ \A name \in {H_DATA, H_ORE, H_INIZIO, H_FINE, H_SEDE, H_CF} :
                 HasColumn(name) <=>
                   ~\E n \in 1..Len(st_error.cols) : st_error.cols[n] = name
       /\ AllSixPresent => st_error.kind = "classe"
  /\ Normalized =>
       /\ AllSixPresent /\ ClassPresent
       /\ Len(df) = Len(table)
       /\ st_error.kind = "none"

C6_StoppedOnMissingColumn ==
  /\ pc = "stopped"
  /\ st_error.kind = "missing"
  /\ Len(st_error.cols) = 2
  /\ NoResults


\* The rows of a result table that pair Excel rows rx and ry, in this order.
PairRows(res, rx, ry) ==
  {n \in 1..Len(res) : res[n].riga_x = rx /\ res[n].riga_y = ry}

RowPairs(res) == {<<res[n].riga_x, res[n].riga_y>> : n \in 1..Len(res)}

SamePartition(r1, r2, by) == r1.date = r2.date /\ r1[by] = r2[by]

\* One run of _check_overlaps_by: ord is the order in which it visited the
\* rows, res the table it returned.
PairwiseScan(ord, res, by) ==
  /\ \A a, b \in 1..Len(ord) :
       a < b /\ SamePartition(df[ord[a]], df[ord[b]], by) =>
         /\ df[ord[a]].start_dt.v <= df[ord[b]].start_dt.v
         /\ Cardinality(PairRows(res, df[ord[a]].original_row, df[ord[b]].original_row))
              = IF df[ord[b]].start_dt.v < df[ord[a]].end_dt.v THEN 1 ELSE 0
         /\ PairRows(res, df[ord[b]].original_row, df[ord[a]].original_row) = {}
  /\ \A n \in 1..Len(res) :
       \E a, b \in 1..Len(ord) :
         /\ a < b
         /\ SamePartition(df[ord[a]], df[ord[b]], by)
         /\ res[n].riga_x = df[ord[a]].original_row
         /\ res[n].riga_y = df[ord[b]].original_row

\* C2: within a (date, key) partition, visited in ascending start order, the
\* pair of positions i < j (adjacent or not) is reported, once, if and only
\* if start(j) < end(i), and nothing else is reported; for 09:00-10:00,
\* 09:30-10:30 and 10:00-11:00 of one teacher on one date the pairs are
\* exactly the first with the second and the second with the third.
C2_PairReportedIffStartsBeforeEnd ==
  /\ CfChecked => PairwiseScan(sort_cf, overlaps_cf_df, "cf_norm")
  /\ ClassChecked => PairwiseScan(sort_class, overlaps_class_df, "class")
  /\ CfChecked /\ table = <<A_0900_1000, B_0930_1030, C_1000_1100>> =>
       RowPairs(overlaps_cf_df) = {<<2, 3>>, <<3, 4>>}

C2_ThreeLessons ==
  /\ pc = "done"
  /\ table = <<A_0900_1000, B_0930_1030, C_1000_1100>>
  /\ Len(overlaps_cf_df) = 2
  /\ RowPairs(overlaps_cf_df) = {<<2, 3>>, <<3, 4>>}

\* C7: rows of a partition with equal start instants are visited by
\* ascending row number, so the smaller row number is 'Riga X'.
C7_TiesByRowNumber ==
  /\ CfChecked =>
       /\ \A a, b \in 1..Len(sort_cf) :
            /\ a < b
            /\ SamePartition(df[sort_cf[a]], df[sort_cf[b]], "cf_norm")
            /\ df[sort_cf[a]].start_dt = df[sort_cf[b]].start_dt
            => df[sort_cf[a]].original_row < df[sort_cf[b]].original_row
       /\ \A n \in 1..Len(overlaps_cf_df) :
            ByRow(overlaps_cf_df[n].riga_x).start_dt
              = ByRow(overlaps_cf_df[n].riga_y).start_dt
            => overlaps_cf_df[n].riga_x < overlaps_cf_df[n].riga_y
  /\ ClassChecked =>
       \A a, b \in 1..Len(sort_class) :
         /\ a < b
         /\ SamePartition(df[sort_class[a]], df[sort_class[b]], "class")
         /\ df[sort_class[a]].start_dt = df[sort_class[b]].start_dt
         => df[sort_class[a]].original_row < df[sort_class[b]].original_row

\* A cell that is neither empty nor blank text.
Filled(c) == c.kind # "nan" /\ (c.kind = "str" => str_strip(c.s) # <<>>)

\* C8: a record without both instants, or whose teacher (class) cell is
\* missing or blank in the sheet, is in no pair of check_overlaps_cf
\* (check_overlaps_class).
C8_OnlyKeyedRecordsPaired ==
  /\ CfChecked =>
       \A n \in 1..Len(overlaps_cf_df) :
         \A r \in {ByRow(overlaps_cf_df[n].riga_x), ByRow(overlaps_cf_df[n].riga_y)} :
           r.start_dt.ok /\ r.end_dt.ok /\ Filled(r.raw.cf)
  /\ ClassChecked =>
       \A n \in 1..Len(overlaps_class_df) :
         \A r \in {ByRow(overlaps_class_df[n].riga_x), ByRow(overlaps_class_df[n].riga_y)} :
           r.start_dt.ok /\ r.end_dt.ok /\ Filled(r.raw.classe)

\* Two rows whose intervals [start, end) share a stretch of positive length.
ShareTime(r1, r2) ==
  /\ r1.start_dt.ok /\ r1.end_dt.ok /\ r2.start_dt.ok /\ r2.end_dt.ok
  /\ Max(r1.start_dt.v, r2.start_dt.v) < Min(r1.end_dt.v, r2.end_dt.v)

Reported(res, r1, r2) ==
  \/ PairRows(res, r1.original_row, r2.original_row) # {}
  \/ PairRows(res, r2.original_row, r1.original_row) # {}

\* C10, as stated: two records with the same non-empty key whose intervals
\* share time are reported, whatever their dates.
C10_SharedTimeReported ==
  /\ CfChecked =>
       \A k1, k2 \in 1..Len(df) :
         /\ k1 # k2
         /\ df[k1].cf_norm = df[k2].cf_norm /\ df[k1].cf_norm # <<>>
         /\ ShareTime(df[k1], df[k2])
         => Reported(overlaps_cf_df, df[k1], df[k2])
  /\ ClassChecked =>
       \A k1, k2 \in 1..Len(df) :
         /\ k1 # k2
         /\ df[k1].class = df[k2].class /\ df[k1].class # <<>>
         /\ ShareTime(df[k1], df[k2])
         => Reported(overlaps_class_df, df[k1], df[k2])

\* C10, amended: two records with the same non-empty key and the same
\* lesson date whose intervals share time are reported.
C10_SharedTimeSameDateReported ==
  /\ CfChecked =>
       \A k1, k2 \in 1..Len(df) :
         /\ k1 # k2
         /\ df[k1].cf_norm = df[k2].cf_norm /\ df[k1].cf_norm # <<>>
         /\ df[k1].date = df[k2].date
         /\ ShareTime(df[k1], df[k2])
         => Reported(overlaps_cf_df, df[k1], df[k2])
  /\ ClassChecked =>
       \A k1, k2 \in 1..Len(df) :
         /\ k1 # k2
         /\ df[k1].class = df[k2].class /\ df[k1].class # <<>>
         /\ df[k1].date = df[k2].date
         /\ ShareTime(df[k1], df[k2])
         => Reported(overlaps_class_df, df[k1], df[k2])

\* Three lessons of one teacher on one date, the first and the last of the
\* visiting order sharing time, all pairs reported.
C10_NestedLessonsReported ==
  /\ pc = "done"
  /\ Len(sort_cf) = 3
  /\ SamePartition(df[sort_cf[1]], df[sort_cf[3]], "cf_norm")
  /\ df[sort_cf[1]].start_dt.v < df[sort_cf[3]].start_dt.v
  /\ ShareTime(df[sort_cf[1]], df[sort_cf[3]])
  /\ Reported(overlaps_cf_df, df[sort_cf[1]], df[sort_cf[3]])
  /\ Len(overlaps_cf_df) = 3


\* The five components of the duplicate key, one by one.
KeyComponents(r) ==
  <<r.date, start_str(r), end_str(r), astype_str(r.raw.sede), r.cf_norm>>

\* The rows of duplicates_df that mention Excel row n.
Mentions(n) ==
  {m \in 1..Len(duplicates_df) :
     duplicates_df[m].riga_x = n \/ duplicates_df[m].riga_y = n}

\* C4: the k >= 2 records that share the five key components give
\* k * (k - 1) / 2 rows, one for each two of them, 'Riga X' < 'Riga Y' in
\* every row, and a record that shares its components with no other record
\* is in no row.
C4_OneRowPerPairOfGroup ==
  DuplicatesChecked =>
    /\ \A n \in 1..Len(duplicates_df) :
         duplicates_df[n].riga_x < duplicates_df[n].riga_y
    /\ \A k \in 1..Len(df) :
         LET group == {j \in 1..Len(df) : KeyComponents(df[j]) = KeyComponents(df[k])}
             rows == {n \in 1..Len(duplicates_df) :
                        /\ (duplicates_df[n].riga_x - 1) \in group
                        /\ (duplicates_df[n].riga_y - 1) \in group}
         IN  /\ 2 * Cardinality(rows) = Cardinality(group) * (Cardinality(group) - 1)
             /\ \A i, j \in group :
                  i < j => Cardinality(PairRows(duplicates_df, i + 1, j + 1)) = 1
             /\ Cardinality(group) = 1 => Mentions(df[k].original_row) = {}

\* C9: the two records of a row of duplicates_df are equal in each of the
\* five key components.
C9_PairsEqualInEveryComponent ==
  DuplicatesChecked =>
    \A n \in 1..Len(duplicates_df) :
      KeyComponents(ByRow(duplicates_df[n].riga_x))
        = KeyComponents(ByRow(duplicates_df[n].riga_y))

\* C3: parse_time reads "14:30" and "14.30" as 14:30 and "0.5" as 12:00,
\* and a number f with 0 <= f < 2 whose text is in none of the formats
\* HH:MM, HH.MM, HH:MM:SS as the fraction f of a day.
C3_FractionOfDay ==
  pc = "parsed" /\ x.kind = "str" =>
    /\ x.s \in {<<"1", "4", ":", "3", "0">>, <<"1", "4", ".", "3", "0">>}
         => parsed = Time(14, 30, 0)
    /\ x.s = <<"0", ".", "5">> => parsed = Time(12, 0, 0)
    /\ /\ ~strptime_HM(str_strip(x.s), ":").ok
       /\ ~strptime_HM(str_strip(x.s), ".").ok
       /\ ~strptime_HMS(str_strip(x.s)).ok
       /\ day_fraction(float(x.s)).ok
       => parsed = day_fraction(float(x.s))


=============================================================================
